---- MODULE Spec2Model ----
(* A model of HashMap<KeyType, ValueType, Hash> of src/hash_map.h:          *)
(* a chained hash table whose entries live in a std::list (storage) and     *)
(* whose buckets (table) hold iterators into that list.                     *)
(*                                                                          *)
(* List nodes are modelled as objects of a heap: a node is identified by    *)
(* its index in the sequence heap, every allocation creates a new index,    *)
(* and a destroyed node stays in the heap as FreeNode.  A list iterator is  *)
(* the index of the node it points to; End is the past-the-end iterator.    *)
EXTENDS Integers, Sequences, FiniteSets, TLC

\* ---------------------------------------------------------------- bounds
MaxOps == 2            \* operations performed after construction
MaxVal == 1            \* values are 0..MaxVal
MaxGrow == 16          \* longest sequence handed to a constructor (SpecGrow)

\* ------------------------------------------------------ program constants
inv_alpha == 2
InitialCapacity == 16
DefaultValue == 0
End == 0

\* ------------------------------------------------------------ input sets
Cont == {"a", "b"}
Keys == {0, 16, 3}
Values == 0..MaxVal
HashFns == {"ident", "div16"}
\* the hashers handed to the constructors of a and of b
HashPairs == {<<"ident", "ident">>, <<"div16", "ident">>}

\* The i-th pair of the sequences handed to the range constructor:
\* keys 0,16,32,1,17,33,2,18,34,... (distinct, colliding modulo 16).
InitKey(i) == ((i - 1) % 3) * 16 + ((i - 1) \div 3)
InitVal(i) == i % (MaxVal + 1)
BaseList(n) == [i \in 1..n |-> <<InitKey(i), InitVal(i)>>]
DupList == << <<0, 1>>, <<16, 0>>, <<0, 0>> >>
InitLists == {BaseList(0), BaseList(7), BaseList(8), DupList}
OtherLists == {BaseList(0), BaseList(8)}
AllKeys == Keys \cup {InitKey(i) : i \in 1..8}

VARIABLES heap, hm, ref, last, nops
vars == <<heap, hm, ref, last, nops>>

\* ------------------------------------------------------------------ heap
FreeNode == [key |-> -1, val |-> -1, live |-> FALSE]
NewNode(k, v) == [key |-> k, val |-> v, live |-> TRUE]

\* The Hash functor: hasher(obj).
hasherApply(h, k) == IF h = "ident" THEN k ELSE k \div 16

World == [heap |-> heap, hm |-> hm]

RemoveAt(s, i) == [j \in 1..(Len(s) - 1) |-> IF j < i THEN s[j] ELSE s[j + 1]]

\* Position of the first element of a chain whose entry has key k (0: none).
RECURSIVE ChainPos(_, _, _, _)
ChainPos(W, chain, k, i) ==
    IF i > Len(chain) THEN 0
    ELSE IF W.heap[chain[i]].key = k THEN i
    ELSE ChainPos(W, chain, k, i + 1)

\* Position of node it in a std::list (0: none).
RECURSIVE ListPos(_, _, _)
ListPos(s, it, i) ==
    IF i > Len(s) THEN 0
    ELSE IF s[i] = it THEN i
    ELSE ListPos(s, it, i + 1)

\* ------------------------------------------------------- private members
applyHash(C, obj) == hasherApply(C.hasher, obj) % C.capacity

initializeTable(C, _capacity) ==
    [C EXCEPT !.capacity = _capacity,
              !.table = [i \in 0..(_capacity - 1) |-> <<>>]]

push_back(W, c, k, v, hashed) ==
    LET it == Len(W.heap) + 1
    IN  [heap |-> Append(W.heap, NewNode(k, v)),
         hm |-> [W.hm EXCEPT ![c].storage = Append(@, it),
                             ![c].table[hashed] = Append(@, it)]]

\* storage.clear(): destroys every node of the list.
storage_clear(W, c) ==
    LET S == {W.hm[c].storage[i] : i \in 1..Len(W.hm[c].storage)}
    IN  [heap |-> [i \in 1..Len(W.heap) |->
                      IF i \in S THEN FreeNode ELSE W.heap[i]],
         hm |-> [W.hm EXCEPT ![c].storage = <<>>]]

RECURSIVE insert(_, _, _, _), update(_, _), insertAll(_, _, _, _)

\* for (auto &el : list) insert(el);   from position i on
insertAll(W, c, list, i) ==
    IF i > Len(list) THEN W
    ELSE insertAll(insert(W, c, list[i][1], list[i][2]), c, list, i + 1)

\* update() with the load test off by one (rehash only above the threshold)
update_le(W, c) ==
    LET C == W.hm[c]
    IN  IF C.numElements * inv_alpha <= C.capacity THEN W
        ELSE LET temp_list == [i \in 1..Len(C.storage) |->
                                  <<W.heap[C.storage[i]].key,
                                    W.heap[C.storage[i]].val>>]
                 W1 == storage_clear(W, c)
                 W2 == [W1 EXCEPT !.hm[c] =
                           initializeTable(@, C.capacity * inv_alpha)]
                 W3 == [W2 EXCEPT !.hm[c].numElements = 0]
             IN  insertAll(W3, c, temp_list, 1)

\* update() that forgets numElements = 0 before re-inserting
update_keepcount(W, c) ==
    LET C == W.hm[c]
    IN  IF C.numElements * inv_alpha < C.capacity THEN W
        ELSE LET temp_list == [i \in 1..Len(C.storage) |->
                                  <<W.heap[C.storage[i]].key,
                                    W.heap[C.storage[i]].val>>]
                 W1 == storage_clear(W, c)
                 W2 == [W1 EXCEPT !.hm[c] =
                           initializeTable(@, C.capacity * inv_alpha)]
             IN  insertAll(W2, c, temp_list, 1)

\* update() that re-inserts the saved pairs from the last to the first
update_reversed(W, c) ==
    LET C == W.hm[c]
    IN  IF C.numElements * inv_alpha < C.capacity THEN W
        ELSE LET n == Len(C.storage)
                 temp_list == [i \in 1..n |->
                                  <<W.heap[C.storage[n + 1 - i]].key,
                                    W.heap[C.storage[n + 1 - i]].val>>]
                 W1 == storage_clear(W, c)
                 W2 == [W1 EXCEPT !.hm[c] =
                           initializeTable(@, C.capacity * inv_alpha)]
                 W3 == [W2 EXCEPT !.hm[c].numElements = 0]
             IN  insertAll(W3, c, temp_list, 1)

\* update() that grows the table by the initial capacity instead of
\* multiplying by inv_alpha
update_linear(W, c) ==
    LET C == W.hm[c]
    IN  IF C.numElements * inv_alpha < C.capacity THEN W
        ELSE LET temp_list == [i \in 1..Len(C.storage) |->
                                  <<W.heap[C.storage[i]].key,
                                    W.heap[C.storage[i]].val>>]
                 W1 == storage_clear(W, c)
                 W2 == [W1 EXCEPT !.hm[c] =
                           initializeTable(@, C.capacity + InitialCapacity)]
                 W3 == [W2 EXCEPT !.hm[c].numElements = 0]
             IN  insertAll(W3, c, temp_list, 1)

update(W, c) ==
    LET C == W.hm[c]
    IN  IF C.numElements * inv_alpha < C.capacity THEN W
        ELSE LET temp_list == [i \in 1..Len(C.storage) |->
                                  <<W.heap[C.storage[i]].key,
                                    W.heap[C.storage[i]].val>>]
                 W1 == storage_clear(W, c)
                 W2 == [W1 EXCEPT !.hm[c] =
                           initializeTable(@, C.capacity * inv_alpha)]
                 W3 == [W2 EXCEPT !.hm[c].numElements = 0]
             IN  insertAll(W3, c, temp_list, 1)

\* insert() that overwrites the value of a key already stored
insert_overwrite(W, c, k, v) ==
    LET hashed == applyHash(W.hm[c], k)
        pos == ChainPos(W, W.hm[c].table[hashed], k, 1)
    IN  IF pos # 0
        THEN [W EXCEPT !.heap[W.hm[c].table[hashed][pos]].val = v]
        ELSE LET W1 == push_back(W, c, k, v, hashed)
                 W2 == [W1 EXCEPT !.hm[c].numElements = @ + 1]
             IN  update(W2, c)

\* insert() without the scan of the chain for an equal key
insert_noscan(W, c, k, v) ==
    LET hashed == applyHash(W.hm[c], k)
        W1 == push_back(W, c, k, v, hashed)
        W2 == [W1 EXCEPT !.hm[c].numElements = @ + 1]
    IN  update(W2, c)

insert(W, c, k, v) ==
    LET hashed == applyHash(W.hm[c], k)
    IN  IF ChainPos(W, W.hm[c].table[hashed], k, 1) # 0 THEN W
        ELSE LET W1 == push_back(W, c, k, v, hashed)
                 W2 == [W1 EXCEPT !.hm[c].numElements = @ + 1]
             IN  update(W2, c)

\* ------------------------------------------------------- public members
\* The constructors from a sequence / initializer list (the default
\* constructor is the case of the empty sequence).
Construct(W, c, list, hasherObj) ==
    LET C0 == [storage |-> <<>>, hasher |-> hasherObj, capacity |-> 0,
               table |-> <<>>, numElements |-> 0]
        W0 == [heap |-> W.heap,
               hm |-> [W.hm EXCEPT ![c] = initializeTable(C0, InitialCapacity)]]
    IN  insertAll(W0, c, list, 1)

\* erase() that forgets table[hashed].erase(iter)
erase_keepref(W, c, toDel) ==
    LET C == W.hm[c]
        hashed == applyHash(C, toDel)
        pos == ChainPos(W, C.table[hashed], toDel, 1)
    IN  IF pos = 0 THEN W
        ELSE LET it == C.table[hashed][pos]
             IN  [heap |-> [W.heap EXCEPT ![it] = FreeNode],
                  hm |-> [W.hm EXCEPT
                     ![c].storage = RemoveAt(@, ListPos(@, it, 1)),
                     ![c].numElements = @ - 1]]

erase(W, c, toDel) ==
    LET C == W.hm[c]
        hashed == applyHash(C, toDel)
        pos == ChainPos(W, C.table[hashed], toDel, 1)
    IN  IF pos = 0 THEN W
        ELSE LET it == C.table[hashed][pos]
             IN  [heap |-> [W.heap EXCEPT ![it] = FreeNode],
                  hm |-> [W.hm EXCEPT
                     ![c].storage = RemoveAt(@, ListPos(@, it, 1)),
                     ![c].table[hashed] = RemoveAt(@, pos),
                     ![c].numElements = @ - 1]]

find(W, c, key) ==
    LET C == W.hm[c]
        hashed == applyHash(C, key)
        pos == ChainPos(W, C.table[hashed], key, 1)
    IN  IF pos = 0 THEN End ELSE C.table[hashed][pos]

\* for (auto &p : storage) table[applyHash(p.first)].clear();
RECURSIVE clearChains(_, _, _)
clearChains(W, c, i) ==
    IF i > Len(W.hm[c].storage) THEN W
    ELSE LET hashed == applyHash(W.hm[c], W.heap[W.hm[c].storage[i]].key)
         IN  clearChains([W EXCEPT !.hm[c].table[hashed] = <<>>], c, i + 1)

\* clear() that empties the list but leaves the chains alone
clear_nochains(W, c) ==
    LET W2 == storage_clear(W, c)
    IN  [W2 EXCEPT !.hm[c].numElements = 0]

\* clear() that also re-creates the table with the default capacity
clear_reinit(W, c) ==
    LET W1 == clearChains(W, c, 1)
        W2 == storage_clear(W1, c)
        W3 == [W2 EXCEPT !.hm[c] = initializeTable(@, InitialCapacity)]
    IN  [W3 EXCEPT !.hm[c].numElements = 0]

clear(W, c) ==
    LET W1 == clearChains(W, c, 1)
        W2 == storage_clear(W1, c)
    IN  [W2 EXCEPT !.hm[c].numElements = 0]

\* begin()..end(): the pairs of the entries, in list order.
Traversal(W, c) ==
    [i \in 1..Len(W.hm[c].storage) |->
        <<W.heap[W.hm[c].storage[i]].key, W.heap[W.hm[c].storage[i]].val>>]

\* operator= (the source is named in last.err by the Assign action)
\* operator= that forgets initializeTable(other.capacity)
assign_keepcap(W, c, other) ==
    IF c = other THEN W
    ELSE LET W1 == clear(W, c)
             W2 == [W1 EXCEPT !.hm[c].hasher = W.hm[other].hasher]
         IN  insertAll(W2, c, Traversal(W2, other), 1)

\* operator= that copies the members of other as they are (the list is
\* copied node by node, the table of iterators is copied verbatim)
assign_memberwise(W, c, other) ==
    IF c = other THEN W
    ELSE LET W1 == clear(W, c)
             n == Len(W1.hm[other].storage)
             base == Len(W1.heap)
         IN  [heap |-> W1.heap \o
                        [i \in 1..n |-> W1.heap[W1.hm[other].storage[i]]],
              hm |-> [W1.hm EXCEPT ![c] =
                        [W1.hm[other] EXCEPT
                            !.storage = [i \in 1..n |-> base + i]]]]

assign(W, c, other) ==
    IF c = other THEN W
    ELSE LET W1 == clear(W, c)
             W2 == [W1 EXCEPT !.hm[c].hasher = W.hm[other].hasher]
             W3 == [W2 EXCEPT !.hm[c] =
                       initializeTable(@, W.hm[other].capacity)]
         IN  insertAll(W3, c, Traversal(W3, other), 1)

\* operator[]: the world after the call, and the iterator whose ->second
\* is returned.
index_world(W, c, key) ==
    IF find(W, c, key) = End THEN insert(W, c, key, DefaultValue) ELSE W

\* operator[] that keeps the iterator of the node push_back created
\* instead of searching again after insert
index_iter_stale(W, c, key) ==
    IF find(W, c, key) = End THEN Len(W.heap) + 1 ELSE find(W, c, key)

index_iter(W, c, key) == find(index_world(W, c, key), c, key)

\* at(): the world after the call (a const member), whether it throws
\* std::out_of_range, and the value it returns.
\* at() written with operator[]
at_world_inserting(W, c, key) == index_world(W, c, key)

at_world(W, c, key) == W

at_throws(W, c, key) == find(W, c, key) = End

at_value(W, c, key) == W.heap[find(W, c, key)].val

size(W, c) == W.hm[c].numElements

empty(W, c) == W.hm[c].numElements = 0

\* -------------------------------------------------------- reference map
\* A finite map from keys to values: a function whose domain is the set of
\* the keys it holds.
EmptyMap == <<>>
RefWrite(r, k, v) ==
    [x \in DOMAIN r \cup {k} |-> IF x = k THEN v ELSE r[x]]
RefInsert(r, k, v) == IF k \in DOMAIN r THEN r ELSE RefWrite(r, k, v)
RefErase(r, k) == [x \in DOMAIN r \ {k} |-> r[x]]
RECURSIVE RefOfList(_, _, _)
RefOfList(r, list, i) ==
    IF i > Len(list) THEN r
    ELSE RefOfList(RefInsert(r, list[i][1], list[i][2]), list, i + 1)

\* ----------------------------------------------------------------- Init
NoOp == [op |-> "construct", c |-> "a", key |-> 0, val |-> 0,
         ret |-> End, err |-> "none"]

Init ==
    \E la \in InitLists, lb \in OtherLists, hp \in HashPairs :
        LET ha == hp[1]
            hb == hp[2]
            Z == [heap |-> <<>>, hm |-> [c \in Cont |-> <<>>]]
            Wa == Construct(Z, "a", la, ha)
            Wb == Construct(Wa, "b", lb, hb)
        IN  /\ heap = Wb.heap
            /\ hm = Wb.hm
            /\ ref = [c \in Cont |->
                        RefOfList(EmptyMap, IF c = "a" THEN la ELSE lb, 1)]
            /\ last = NoOp
            /\ nops = 0

\* -------------------------------------------------------------- actions
Done(W, r, l) ==
    /\ heap' = W.heap
    /\ hm' = W.hm
    /\ ref' = r
    /\ last' = l
    /\ nops' = nops + 1

Insert(c, k, v) ==
    /\ nops < MaxOps
    /\ Done(insert(World, c, k, v),
            [ref EXCEPT ![c] = RefInsert(@, k, v)],
            [op |-> "insert", c |-> c, key |-> k, val |-> v,
             ret |-> End, err |-> "none"])

Erase(c, k) ==
    /\ nops < MaxOps
    /\ Done(erase(World, c, k),
            [ref EXCEPT ![c] = RefErase(@, k)],
            [op |-> "erase", c |-> c, key |-> k, val |-> 0,
             ret |-> End, err |-> "none"])

\* find(k): the returned iterator is recorded in last.ret
Find(c, k) ==
    /\ nops < MaxOps
    /\ Done(World, ref,
            [op |-> "find", c |-> c, key |-> k, val |-> 0,
             ret |-> find(World, c, k), err |-> "none"])

\* m[k]: read through the returned reference
Index(c, k) ==
    /\ nops < MaxOps
    /\ LET W == index_world(World, c, k)
           it == index_iter(World, c, k)
       IN  Done(W,
                [ref EXCEPT ![c] = RefInsert(@, k, DefaultValue)],
                [op |-> "index", c |-> c, key |-> k, val |-> W.heap[it].val,
                 ret |-> it, err |-> "none"])

\* m[k] = v: write through the returned reference
IndexWrite(c, k, v) ==
    /\ nops < MaxOps
    /\ LET W == index_world(World, c, k)
           it == index_iter(World, c, k)
       IN  Done([W EXCEPT !.heap[it].val = v],
                [ref EXCEPT ![c] = RefWrite(@, k, v)],
                [op |-> "indexwrite", c |-> c, key |-> k, val |-> v,
                 ret |-> it, err |-> "none"])

At(c, k) ==
    /\ nops < MaxOps
    /\ Done(at_world(World, c, k), ref,
            IF at_throws(World, c, k)
            THEN [op |-> "at", c |-> c, key |-> k, val |-> 0,
                  ret |-> End, err |-> "OutOfRange"]
            ELSE [op |-> "at", c |-> c, key |-> k,
                  val |-> at_value(World, c, k),
                  ret |-> End, err |-> "none"])

Clear(c) ==
    /\ nops < MaxOps
    /\ Done(clear(World, c),
            [ref EXCEPT ![c] = EmptyMap],
            [op |-> "clear", c |-> c, key |-> 0, val |-> 0,
             ret |-> End, err |-> "none"])

Assign(c, other) ==
    /\ nops < MaxOps
    /\ Done(assign(World, c, other),
            [ref EXCEPT ![c] = ref[other]],
            [op |-> "assign", c |-> c, key |-> 0, val |-> 0,
             ret |-> End, err |-> other])

Next ==
    \/ \E c \in Cont, k \in Keys, v \in Values : Insert(c, k, v)
    \/ \E c \in Cont, k \in Keys : Erase(c, k)
    \/ \E c \in Cont, k \in Keys : Find(c, k)
    \/ \E c \in Cont, k \in Keys : Index(c, k)
    \/ \E c \in Cont, k \in Keys, v \in Values : IndexWrite(c, k, v)
    \/ \E c \in Cont, k \in Keys : At(c, k)
    \/ \E c \in Cont : Clear(c)
    \/ \E c \in Cont, other \in Cont : Assign(c, other)

Spec == Init /\ [][Next]_vars

\* ------------------------------------------------------------ helpers
Chains(c) == {hm[c].table[h] : h \in DOMAIN hm[c].table}
StorageSet(c) == {hm[c].storage[i] : i \in 1..Len(hm[c].storage)}
StorageSetNext(c) == {hm'[c].storage[i] : i \in 1..Len(hm'[c].storage)}
TraversalNow(c) == Traversal(World, c)
TraversalNext(c) == Traversal([heap |-> heap', hm |-> hm'], c)
TypeOK == nops \in 0..MaxOps

\* Whether an entry with key k is in the Entry Log of c, and that entry
\* (found by walking the list, not through the buckets).
Stored(c, k) == \E it \in StorageSet(c) : heap[it].key = k
StoredIter(c, k) == CHOOSE it \in StorageSet(c) : heap[it].key = k
Without(s, it) == SelectSeq(s, LAMBDA x : x # it)
FindNext(c, k) == find([heap |-> heap', hm |-> hm'], c, k)
KeyOps == {"insert", "index", "indexwrite", "erase"}

\* ================================================================ claims

\* C1: an entry of key k1 stays the same live object, with the same key and
\* value, across an insert, index or erase of another key k2 # k1 on its
\* container, also when the insert rehashes.
C1_ReferenceStability ==
    [][last'.op \in KeyOps =>
         \A it \in StorageSet(last'.c) :
             heap[it].key # last'.key =>
                 /\ it \in StorageSetNext(last'.c)
                 /\ heap'[it] = heap[it]]_vars

\* C2: the container agrees with the reference map: find(k) is End exactly
\* when k is not in the reference map, and otherwise denotes a live entry
\* with key k and the reference map's value.
C2_AgreesWithReferenceMap ==
    \A c \in Cont, k \in AllKeys :
        LET it == find(World, c, k)
        IN  IF k \notin DOMAIN ref[c] THEN it = End
            ELSE /\ it # End
                 /\ heap[it].live
                 /\ heap[it].key = k
                 /\ heap[it].val = ref[c][k]

C2_Witness ==
    /\ last.op = "indexwrite"
    /\ nops = MaxOps
    /\ hm[last.c].capacity = InitialCapacity * inv_alpha
    /\ last.key \in DOMAIN ref[last.c]
    /\ ref[last.c][last.key] = last.val
    /\ last.val # DefaultValue
    /\ \E k \in Keys : k \notin DOMAIN ref[last.c]

C4_InsertDuplicateNoOp ==
    [][(last'.op = "insert" /\ Stored(last'.c, last'.key)) =>
         /\ hm' = hm
         /\ heap' = heap]_vars

C4_Witness ==
    /\ last.op = "insert"
    /\ Stored(last.c, last.key)
    /\ heap[StoredIter(last.c, last.key)].val # last.val
    /\ Len(hm[last.c].storage) > 1

\* C5: erase of an absent key changes nothing; erase of a present key
\* removes exactly its entry from the list and from its chain, decrements
\* the count, keeps the other entries, their order and the capacity, and
\* afterwards find reports End.
C5_EraseFrame ==
    [][last'.op = "erase" =>
         LET c == last'.c
             k == last'.key
         IN  IF ~Stored(c, k) THEN hm' = hm /\ heap' = heap
             ELSE LET it == StoredIter(c, k)
                  IN  /\ hm'[c].storage = Without(hm[c].storage, it)
                      /\ DOMAIN hm'[c].table = DOMAIN hm[c].table
                      /\ \A h \in DOMAIN hm[c].table :
                            hm'[c].table[h] = Without(hm[c].table[h], it)
                      /\ hm'[c].numElements = hm[c].numElements - 1
                      /\ hm'[c].capacity = hm[c].capacity
                      /\ \A o \in StorageSet(c) \ {it} : heap'[o] = heap[o]
                      /\ ~heap'[it].live
                      /\ FindNext(c, k) = End
                      /\ \A d \in Cont \ {c} : hm'[d] = hm[d]]_vars

C5_Witness ==
    /\ last.op = "erase"
    /\ nops = 1
    /\ last.key \notin DOMAIN ref[last.c]
    /\ Len(hm[last.c].storage) = 7
    /\ hm[last.c].capacity = InitialCapacity * inv_alpha
    /\ \E i \in 1..Len(heap) : heap[i] = FreeNode

\* C6: at(k) returns the stored value when k is present, fails with
\* OutOfRange when k is absent, and never changes the container.
C6_AtReadOnly ==
    [][last'.op = "at" =>
         /\ hm' = hm
         /\ heap' = heap
         /\ IF Stored(last'.c, last'.key)
            THEN /\ last'.err = "none"
                 /\ last'.val = heap[StoredIter(last'.c, last'.key)].val
            ELSE last'.err = "OutOfRange"]_vars

C6_Witness ==
    /\ last.op = "at"
    /\ last.err = "OutOfRange"
    /\ empty(World, last.c)
    /\ nops = 1

\* C7: index(k) on a present key changes nothing and returns its entry; on
\* an absent key it adds (k, default) so that size() grows by 1; the
\* returned reference denotes the entry stored for k when index returns.
C7_IndexReturnsStoredEntry ==
    [][last'.op = "index" =>
         LET c == last'.c
             k == last'.key
         IN  /\ last'.err = "none"
             /\ last'.ret \in StorageSetNext(c)
             /\ heap'[last'.ret].live
             /\ heap'[last'.ret].key = k
             /\ FindNext(c, k) = last'.ret
             /\ IF Stored(c, k)
                THEN /\ hm' = hm
                     /\ heap' = heap
                     /\ last'.ret = StoredIter(c, k)
                ELSE /\ hm'[c].numElements = hm[c].numElements + 1
                     /\ Len(hm'[c].storage) = Len(hm[c].storage) + 1
                     /\ heap'[last'.ret].val = DefaultValue]_vars

C7_Witness ==
    /\ last.op = "index"
    /\ nops = 1
    /\ last.key = 3
    /\ hm[last.c].capacity = InitialCapacity * inv_alpha
    /\ size(World, last.c) = 8
    /\ last.ret = hm[last.c].storage[8]
    /\ heap[last.ret].key = 3

\* C8: size() is the number of entries a traversal visits, and empty()
\* holds exactly when there is none.
C8_SizeIsTraversalLength ==
    \A c \in Cont :
        /\ size(World, c) = Len(TraversalNow(c))
        /\ empty(World, c) <=> (Len(TraversalNow(c)) = 0)

C8_Witness ==
    /\ last.op = "insert"
    /\ nops = 1
    /\ \E i \in 1..Len(heap) : heap[i] = FreeNode
    /\ hm[last.c].capacity = InitialCapacity * inv_alpha
    /\ Len(TraversalNow(last.c)) = 8
    /\ TraversalNow(last.c)[8] = <<last.key, last.val>>

\* C9: after clear() the size is 0, the traversal is empty, no key is
\* found and every chain is empty.
C9_ClearEmptiesAll ==
    last.op = "clear" =>
        /\ size(World, last.c) = 0
        /\ TraversalNow(last.c) = <<>>
        /\ \A k \in AllKeys : find(World, last.c, k) = End
        /\ \A chain \in Chains(last.c) : chain = <<>>

C9_Witness ==
    /\ last.op = "clear"
    /\ last.c = "b"
    /\ nops = 1
    /\ hm["b"].capacity = InitialCapacity * inv_alpha
    /\ \E i \in 1..Len(heap) : heap[i] = FreeNode

C11_AssignCopies ==
    [][last'.op = "assign" =>
         LET c == last'.c
             o == last'.err
         IN  IF c = o THEN hm' = hm /\ heap' = heap
             ELSE /\ TraversalNext(c) = TraversalNow(o)
                  /\ hm'[c].numElements = hm[o].numElements
                  /\ hm'[c].capacity = hm[o].capacity
                  /\ hm'[c].hasher = hm[o].hasher
                  /\ Len(heap') = Len(heap) + hm[o].numElements
                  /\ hm'[o] = hm[o]
                  /\ \A it \in StorageSet(o) : heap'[it] = heap[it]]_vars

C11_Witness ==
    /\ last.op = "assign"
    /\ last.c = "b"
    /\ last.err = "a"
    /\ nops = 1
    /\ hm["b"].capacity = InitialCapacity
    /\ size(World, "b") = 7
    /\ Len(heap) = 7 + 16 + 7
    /\ TraversalNow("b") = TraversalNow("a")

\* The iterators held by the chains of c.
ChainRefs(c) ==
    UNION {{hm[c].table[h][i] : i \in 1..Len(hm[c].table[h])} :
              h \in DOMAIN hm[c].table}
ChainRefsNext(c) ==
    UNION {{hm'[c].table[h][i] : i \in 1..Len(hm'[c].table[h])} :
              h \in DOMAIN hm'[c].table}
MutatingOps == {"insert", "index", "indexwrite", "erase", "clear"}

\* C12: an insert, index-write, erase or clear on one container leaves the
\* entries, count, capacity and chains of the other container unchanged,
\* also after an assign between them, and no chain of one container
\* references an entry of the other.
C12_CopyIndependence ==
    [][/\ \A c \in Cont : \A d \in Cont \ {c} :
             /\ ChainRefs(c) \cap StorageSet(d) = {}
             /\ ChainRefsNext(c) \cap StorageSetNext(d) = {}
       /\ last'.op \in MutatingOps =>
             \A d \in Cont \ {last'.c} :
                 /\ hm'[d] = hm[d]
                 /\ \A it \in StorageSet(d) : heap'[it] = heap[it]]_vars

\* b was assigned from a (7 entries, capacity 16), then key 0 was erased
\* from b: a still holds its 7 entries.
C12_Witness ==
    /\ nops = 2
    /\ last.op = "erase"
    /\ last.c = "b"
    /\ last.key = 0
    /\ hm["b"].capacity = InitialCapacity
    /\ size(World, "b") = 6
    /\ size(World, "a") = 7
    /\ find(World, "a", 0) # End
    /\ find(World, "b", 0) = End

C14_CapacityNeverShrinks ==
    [][\A c \in Cont : hm'[c].capacity >= hm[c].capacity]_vars

\* C14 amended: insert, index, erase and clear never lower the capacity,
\* erase never changes it, and assign sets it to the capacity of the source
\* (which may be lower).
C14_CapacityMonotoneExceptAssign ==
    [][\A c \in Cont :
          /\ last'.op # "assign" => hm'[c].capacity >= hm[c].capacity
          /\ last'.op = "erase" => hm'[c].capacity = hm[c].capacity
          /\ (last'.op = "assign" /\ last'.c = c) =>
                hm'[c].capacity = hm[last'.err].capacity
          /\ (last'.op = "assign" /\ last'.c # c) =>
                hm'[c].capacity = hm[c].capacity]_vars

\* a grew from 16 to 32 by the insert of key 3, then key 0 was erased.
C14_Witness ==
    /\ nops = 2
    /\ last.op = "erase"
    /\ last.c = "a"
    /\ last.key = 0
    /\ hm["a"].capacity = InitialCapacity * inv_alpha
    /\ size(World, "a") = 7
    /\ find(World, "a", 3) # End
    /\ find(World, "a", 0) = End

\* C15: the traversal is the insertion order of the stored keys: an insert
\* (or index) of a new key appends its pair, also when it rehashes, an
\* insert or index of a stored key keeps the sequence, and an erase removes
\* the pair of its key without reordering the others.
C15_TraversalIsInsertionOrder ==
    [][LET c == last'.c
           k == last'.key
           T == TraversalNow(c)
       IN  /\ last'.op = "insert" =>
                 TraversalNext(c) =
                    IF Stored(c, k) THEN T ELSE Append(T, <<k, last'.val>>)
           /\ last'.op = "index" =>
                 TraversalNext(c) =
                    IF Stored(c, k) THEN T ELSE Append(T, <<k, DefaultValue>>)
           /\ last'.op = "erase" =>
                 TraversalNext(c) = SelectSeq(T, LAMBDA p : p[1] # k)
           /\ last'.op \in {"insert", "index", "erase"} =>
                 \A d \in Cont \ {c} : TraversalNext(d) = TraversalNow(d)]_vars

C15_Witness ==
    /\ last.op = "insert"
    /\ last.c = "a"
    /\ nops = 1
    /\ hm["a"].hasher = "div16"
    /\ hm["a"].capacity = InitialCapacity * inv_alpha
    /\ TraversalNow("a") = Append(BaseList(7), <<3, 0>>)

\* How many chain elements of c hold the iterator it.
RefCount(c, it) ==
    Cardinality(UNION {{<<h, i>> : i \in {j \in 1..Len(hm[c].table[h]) :
                                              hm[c].table[h][j] = it}} :
                          h \in DOMAIN hm[c].table})
RECURSIVE SumLen(_, _)
SumLen(t, S) ==
    IF S = {} THEN 0
    ELSE LET h == CHOOSE x \in S : TRUE
         IN  Len(t[h]) + SumLen(t, S \ {h})

\* C16: every entry of the list is referenced by exactly one chain element,
\* which lies in chain hash(key) mod capacity; no chain holds an iterator of
\* a node that is not in the list; the chains hold count elements in all.
C16_BucketPartition ==
    \A c \in Cont :
        /\ \A it \in StorageSet(c) :
              /\ RefCount(c, it) = 1
              /\ \E i \in 1..Len(hm[c].table[applyHash(hm[c], heap[it].key)]) :
                    hm[c].table[applyHash(hm[c], heap[it].key)][i] = it
        /\ ChainRefs(c) \subseteq StorageSet(c)
        /\ SumLen(hm[c].table, DOMAIN hm[c].table) = hm[c].numElements

\* after a rehash to 32 chains keys 0 and 32 still share chain 0; key 16
\* was then erased from its own chain.
C16_Witness ==
    /\ nops = 2
    /\ last.op = "erase"
    /\ last.c = "a"
    /\ last.key = 16
    /\ hm["a"].hasher = "ident"
    /\ hm["a"].capacity = InitialCapacity * inv_alpha
    /\ Len(hm["a"].table[0]) = 2
    /\ hm["a"].table[16] = <<>>
    /\ size(World, "a") = 7
    /\ find(World, "a", 3) # End

\* C17: no two entries of the list of a container have equal keys; a
\* container built from the list (0,1),(16,0),(0,0) holds the first pair of
\* key 0 only.
C17_NoDuplicateKeys ==
    /\ \A c \in Cont :
          \A i \in 1..Len(hm[c].storage), j \in 1..Len(hm[c].storage) :
              i # j => heap[hm[c].storage[i]].key # heap[hm[c].storage[j]].key
    /\ (nops = 0 /\ Len(hm["a"].storage) \notin {0, 7, 8}) =>
          TraversalNow("a") = << <<0, 1>>, <<16, 0>> >>

\* the container built from the list with the repeated key, unchanged by
\* one operation and then assigned to b.
C17_Witness ==
    /\ nops = 2
    /\ last.op = "assign"
    /\ last.c = "b"
    /\ last.err = "a"
    /\ TraversalNow("a") = << <<0, 1>>, <<16, 0>> >>
    /\ TraversalNow("b") = TraversalNow("a")
    /\ ref["a"] = ref["b"]

\* ------------------------------------------------- growth specification
\* Container a is built by the range constructor from up to MaxGrow
\* distinct pairs (two doublings), b by the default constructor; the
\* operations then act on a, and the two containers are assigned to each
\* other.
GrowKeys == {0, InitKey(MaxGrow)}

InitGrow ==
    \E n \in 0..MaxGrow, h \in HashFns :
        LET Z == [heap |-> <<>>, hm |-> [c \in Cont |-> <<>>]]
            Wa == Construct(Z, "a", BaseList(n), h)
            Wb == Construct(Wa, "b", <<>>, "ident")
        IN  /\ heap = Wb.heap
            /\ hm = Wb.hm
            /\ ref = [c \in Cont |->
                        RefOfList(EmptyMap,
                                  IF c = "a" THEN BaseList(n) ELSE <<>>, 1)]
            /\ last = NoOp
            /\ nops = 0

NextGrow ==
    \/ \E k \in GrowKeys, v \in Values : Insert("a", k, v)
    \/ \E k \in GrowKeys : Erase("a", k)
    \/ \E k \in GrowKeys : Index("a", k)
    \/ Clear("a")
    \/ \E c \in Cont, other \in Cont : Assign(c, other)

SpecGrow == InitGrow /\ [][NextGrow]_vars

\* n = 16 * 2^j for some j >= 0
RECURSIVE CapacityForm(_)
CapacityForm(n) ==
    \/ n = InitialCapacity
    \/ /\ n > InitialCapacity
       /\ n % 2 = 0
       /\ CapacityForm(n \div 2)

\* C18: the capacity is 16 * 2^j, the table has exactly capacity chains,
\* numbered 0..capacity-1, and the bucket index of every key is one of them.
C18_CapacityForm ==
    \A c \in Cont :
        /\ CapacityForm(hm[c].capacity)
        /\ DOMAIN hm[c].table = 0..(hm[c].capacity - 1)
        /\ \A k \in GrowKeys \cup {InitKey(i) : i \in 1..MaxGrow} :
              applyHash(hm[c], k) \in DOMAIN hm[c].table

\* the second doubling: 15 stored keys and the insert of a 16th.
C18_Witness ==
    /\ nops = 1
    /\ last.op = "insert"
    /\ hm["a"].capacity = InitialCapacity * 4
    /\ size(World, "a") = 16
    /\ Cardinality(DOMAIN hm["a"].table) = 64

\* The nodes created by n inserts of distinct keys into a new container
\* when every rehash happens alone, at count * 2 = capacity: n, and the
\* whole list again at the 8th, 16th and 32nd insert.
NodesOfInserts(n) ==
    n + (IF n >= 8 THEN 8 ELSE 0) + (IF n >= 16 THEN 16 ELSE 0)
      + (IF n >= 32 THEN 32 ELSE 0)

copy_construct(W, c, other) ==
    LET n == Len(W.hm[other].storage)
        base == Len(W.heap)
    IN  [heap |-> W.heap \o [i \in 1..n |-> W.heap[W.hm[other].storage[i]]],
         hm |-> [W.hm EXCEPT ![c] =
                    [W.hm[other] EXCEPT !.storage = [i \in 1..n |-> base + i]]]]

\* Whether the scan of the chain of key reads a destroyed node (a dangling
\* iterator) before it stops.
DanglingScan(W, c, key) ==
    LET chain == W.hm[c].table[applyHash(W.hm[c], key)]
        pos == ChainPos(W, chain, key, 1)
        scanned == IF pos = 0 THEN Len(chain) ELSE pos
    IN  \E i \in 1..scanned : ~W.heap[chain[i]].live

\* Whether erase(toDel) hands storage.erase an iterator of another list.
ForeignErase(W, c, toDel) ==
    /\ find(W, c, toDel) # End
    /\ ListPos(W.hm[c].storage, find(W, c, toDel), 1) = 0

\* erase() when *iter is a node of another list, in the outcome where
\* std::list::erase unhooks the node from the list it is linked in and
\* destroys it.
erase_foreign(W, c, toDel) ==
    LET C == W.hm[c]
        hashed == applyHash(C, toDel)
        pos == ChainPos(W, C.table[hashed], toDel, 1)
        it == C.table[hashed][pos]
        unhooked == [d \in Cont |->
                        IF ListPos(W.hm[d].storage, it, 1) = 0 THEN W.hm[d]
                        ELSE [W.hm[d] EXCEPT !.storage =
                                 RemoveAt(@, ListPos(@, it, 1))]]
    IN  [heap |-> [W.heap EXCEPT ![it] = FreeNode],
         hm |-> [unhooked EXCEPT ![c].table[hashed] = RemoveAt(@, pos),
                                 ![c].numElements = @ - 1]]

InitCopy ==
    \E la \in InitLists, h \in HashFns :
        LET Z == [heap |-> <<>>, hm |-> [c \in Cont |-> <<>>]]
            Wa == Construct(Z, "a", la, h)
            Wb == copy_construct(Wa, "b", "a")
        IN  /\ heap = Wb.heap
            /\ hm = Wb.hm
            /\ ref = [c \in Cont |-> RefOfList(EmptyMap, la, 1)]
            /\ last = NoOp
            /\ nops = 0

\* The behaviour of the program is undefined from this step on.
Halted == last.err = "undefined"

\* An operation that reads a dangling iterator, or erases through an
\* iterator of another list, in the outcome where the program stops.
UndefinedStep(c, k, op) ==
    /\ ~Halted
    /\ nops < MaxOps
    /\ \/ DanglingScan(World, c, k)
       \/ op = "erase" /\ ForeignErase(World, c, k)
    /\ Done(World, ref,
            [op |-> op, c |-> c, key |-> k, val |-> 0,
             ret |-> End, err |-> "undefined"])

\* erase(k), in the outcome where a foreign node is unhooked.
CopyErase(c, k) ==
    /\ ~Halted
    /\ nops < MaxOps
    /\ Done(IF ForeignErase(World, c, k) THEN erase_foreign(World, c, k)
            ELSE erase(World, c, k),
            [ref EXCEPT ![c] = RefErase(@, k)],
            [op |-> "erase", c |-> c, key |-> k, val |-> 0,
             ret |-> End, err |-> "none"])

\* The other operations, in the outcome where the key read through a
\* dangling iterator differs from every key.
NextCopy ==
    \/ \E c \in Cont, k \in Keys, v \in Values : ~Halted /\ Insert(c, k, v)
    \/ \E c \in Cont, k \in Keys : CopyErase(c, k)
    \/ \E c \in Cont, k \in Keys : ~Halted /\ Find(c, k)
    \/ \E c \in Cont, k \in Keys, v \in Values : ~Halted /\ IndexWrite(c, k, v)
    \/ \E c \in Cont : ~Halted /\ Clear(c)
    \/ \E c \in Cont, k \in Keys,
          op \in {"insert", "erase", "find", "indexwrite"} :
          UndefinedStep(c, k, op)

SpecCopy == InitCopy /\ [][NextCopy]_vars

\* C20: a container made by copy construction has chains that hold only
\* iterators of its own list, and find, erase and index on it reach and
\* change only its own entries, never those of the source.
C20_CopyOwnsItsChains ==
    [][/\ \A c \in Cont :
             /\ ChainRefs(c) \subseteq StorageSet(c)
             /\ ChainRefsNext(c) \subseteq StorageSetNext(c)
       /\ (last'.c = "b" /\ last'.op \in {"find", "indexwrite"}) =>
             last'.ret \in StorageSetNext("b") \cup {End}
       /\ (last'.c = "b" /\ last'.op \in {"erase", "indexwrite"}) =>
             /\ hm'["a"] = hm["a"]
             /\ \A it \in StorageSet("a") : heap'[it] = heap[it]]_vars

====
